---- MODULE Spec2Model ----
(***************************************************************************)
(* Model of the YouTube watch-history tool: the two ingestion stores       *)
(* (HistoryRetriever over API activity items, TakeoutProcessor over a      *)
(* Google Takeout file), their search operation, and the interactive       *)
(* search loop that drives them.                                           *)
(*                                                                         *)
(* A Python str is a TLA+ string, read character by character with SubSeq, *)
(* so that lower(), strip(), startswith(), the `in` substring test and the *)
(* regular expressions of the source are computed as the source computes   *)
(* them.                                                                   *)
(***************************************************************************)
EXTENDS Integers, Sequences, FiniteSets, TLC

\* ------------------------------------------------------------- characters

UpperChars == "ABCDEFGHIJKLMNOPQRSTUVWXYZ"
LowerChars == "abcdefghijklmnopqrstuvwxyz"
DigitChars == "0123456789"

\* s[i] of Python, 1-based
Char(s, i) == SubSeq(s, i, i)
\* the characters that occur in s
CharsOf(s) == {Char(s, i) : i \in 1..Len(s)}

UpperSet == CharsOf(UpperChars)
LowerSet == CharsOf(LowerChars)
DigitSet == CharsOf(DigitChars)
LetterSet == UpperSet \cup LowerSet
\* \w of the re module (ASCII part)
WordSet == LetterSet \cup DigitSet \cup {"_"}
\* [a-zA-Z0-9_-] of the video-id patterns
IdCharSet == WordSet \cup {"-"}

\* \s of the re module and the characters str.strip() removes
IsSpace(c) == c = " "

\* the position of character c in s
IndexOf(s, c) == CHOOSE i \in 1..Len(s) : Char(s, i) = c
\* the value of a decimal digit
DigitVal(c) == IndexOf(DigitChars, c) - 1

\* str.lower(), one character
LowerChar(c) == IF c \in UpperSet THEN Char(LowerChars, IndexOf(UpperChars, c)) ELSE c

\* s[i:] of Python with a 1-based i
From(s, i) == SubSeq(s, i, Len(s))

\* str.lower(): every character lowered, the text taken half by half
RECURSIVE Lower(_)
Lower(s) == IF Len(s) = 0 THEN ""
            ELSE IF Len(s) = 1 THEN LowerChar(s)
            ELSE Lower(SubSeq(s, 1, Len(s) \div 2)) \o Lower(From(s, Len(s) \div 2 + 1))

\* str.startswith(p)
StartsWith(s, p) == Len(s) >= Len(p) /\ SubSeq(s, 1, Len(p)) = p
\* True when p occurs in s at position i
OccursAt(s, p, i) == i + Len(p) - 1 <= Len(s) /\ SubSeq(s, i, i + Len(p) - 1) = p
\* Python's  q in s  on two strings
Contains(s, q) == \E i \in 1..(Len(s) + 1) : OccursAt(s, q, i)

\* the smallest and the largest element of a non-empty set of numbers
MinOf(S) == CHOOSE p \in S : \A q \in S : p <= q
MaxOf(S) == CHOOSE p \in S : \A q \in S : p >= q

\* the part of s between its first and its last character out of cs
Between(s, keep) == IF keep = {} THEN "" ELSE SubSeq(s, MinOf(keep), MaxOf(keep))
\* a faulty variant of Strip: the text is left as typed
NoStrip(s) == s
\* str.strip()
Strip(s) == Between(s, {i \in 1..Len(s) : ~IsSpace(Char(s, i))})

\* position of the first character of s at or after i that lies in set cs, Len(s)+1 when none
FirstIn(hits, none) == IF hits = {} THEN none ELSE MinOf(hits)
FirstOf(s, i, cs) == FirstIn({k \in i..Len(s) : Char(s, k) \in cs}, Len(s) + 1)

\* ------------------------------------------------------------ JSON values
\* A value read from parsed JSON: a string, null, a number (any truthy value that
\* is not a string), or Absent for a key the object does not have.

JStr(s) == [t |-> "str", s |-> s]
JNull == [t |-> "null", s |-> ""]
JNum == [t |-> "num", s |-> ""]
Absent == [t |-> "absent", s |-> ""]

\* dict.get(key, default): the default only when the key is absent
Get(v, default) == IF v = Absent THEN default ELSE v
\* Python truthiness of a value
Truthy(v) == \/ v.t = "num"
             \/ v.t = "str" /\ v.s # ""
IsStr(v) == v.t = "str"

\* ------------------------------------------- urllib.parse (urlparse, parse_qs)

SchemeChars == LetterSet \cup DigitSet \cup {"+", "-", "."}

\* urlsplit: the url after its scheme ("https:") is removed
CutScheme(url, c) ==
    IF c <= Len(url) /\ c > 1 /\ Char(url, 1) \in LetterSet /\ (\A k \in 1..(c - 1) : Char(url, k) \in SchemeChars)
    THEN From(url, c + 1)
    ELSE url
AfterScheme(url) == CutScheme(url, FirstOf(url, 1, {":"}))

\* urlsplit: the netloc, the text between a leading "//" and the next "/", "?" or "#"
NetlocOf(r) == IF StartsWith(r, "//") THEN SubSeq(r, 3, FirstOf(r, 3, {"/", "?", "#"}) - 1) ELSE ""

\* urlsplit raises ValueError("Invalid IPv6 URL") on unbalanced brackets in the netloc
Unbalanced(n) == ("[" \in CharsOf(n)) # ("]" \in CharsOf(n))
UrlparseRaises(url) == Unbalanced(NetlocOf(AfterScheme(url)))

\* the text after the first occurrence of character c, empty when c does not occur
AfterFirst(s, c) == From(s, FirstOf(s, 1, {c}) + 1)
\* the text before the first occurrence of character c
BeforeFirst(s, c) == SubSeq(s, 1, FirstOf(s, 1, {c}) - 1)

\* urlparse(url).query: the fragment is cut at the first "#", the query starts after the first "?"
UrlQuery(url) == AfterFirst(BeforeFirst(AfterScheme(url), "#"), "?")

HexChars == "0123456789abcdef"
IsHex(c) == LowerChar(c) \in CharsOf(HexChars)
HexVal(c) == IndexOf(HexChars, LowerChar(c)) - 1
\* the printable ASCII characters from code 32 on; the tab stands for code 96
Ascii == " !\"#$%&'()*+,-./0123456789:;<=>?@" \o UpperChars \o "[\\]^_\t" \o LowerChars \o "{|}~"
\* chr(n) for a decoded byte; a byte outside printable ASCII is one opaque character
Chr(n) == IF n >= 32 /\ n <= 126 THEN Char(Ascii, n - 31) ELSE "\t"

\* urllib.parse.unquote applied after replace('+', ' '), as parse_qsl does
RECURSIVE Unquote(_)
Unquote(s) ==
    IF s = "" THEN ""
    ELSE IF Char(s, 1) = "%" /\ Len(s) >= 3 /\ IsHex(Char(s, 2)) /\ IsHex(Char(s, 3))
         THEN Chr(16 * HexVal(Char(s, 2)) + HexVal(Char(s, 3))) \o Unquote(From(s, 4))
         ELSE (IF Char(s, 1) = "+" THEN " " ELSE Char(s, 1)) \o Unquote(From(s, 2))

\* str.split(sep) on a one-character separator: the sequence of the parts
RECURSIVE Split(_, _)
SplitAt(s, sep, p) == IF p > Len(s) THEN <<s>> ELSE <<SubSeq(s, 1, p - 1)>> \o Split(From(s, p + 1), sep)
Split(s, sep) == SplitAt(s, sep, FirstOf(s, 1, {sep}))

\* parse_qsl(qs): the (name, value) pairs of a query string; a field without "=" or
\* with an empty value is left out (keep_blank_values is false)
RECURSIVE QsPairs(_)
QsPair(f, e) == IF e >= Len(f) THEN <<>>
                ELSE <<[name |-> Unquote(SubSeq(f, 1, e - 1)), value |-> Unquote(From(f, e + 1))]>>
QsPairs(fields) == IF fields = <<>> THEN <<>>
                   ELSE QsPair(Head(fields), FirstOf(Head(fields), 1, {"="})) \o QsPairs(Tail(fields))

\* parse_qs(qs)[name]: the values of the pairs called name, in order
QsValues(qs, name) == SelectSeq(QsPairs(Split(qs, "&")), LAMBDA p : p.name = name)

\* ------------------------------------- TakeoutWatchHistoryItem._extract_video_id

\* the three patterns of _extract_video_id: the literals that may precede the id
IdPatterns == << {"youtube.com/watch?v=", "youtu.be/"}, {"youtube.com/embed/"}, {"youtube.com/v/"} >>
\* the {11} of the patterns
VideoIdLen == 11

\* literal lit at position i followed by 11 characters of [a-zA-Z0-9_-]
IdAt(url, lit, i) == /\ OccursAt(url, lit, i)
                     /\ i + Len(lit) + VideoIdLen - 1 <= Len(url)
                     /\ \A k \in (i + Len(lit))..(i + Len(lit) + VideoIdLen - 1) : Char(url, k) \in IdCharSet

\* re.search(pattern, url): the positions where one alternative of the pattern matches
PatternHits(url, lits) == {i \in 1..Len(url) : \E lit \in lits : IdAt(url, lit, i)}

\* the 11 characters after the literal that matches at position i
GroupAt(url, lits, i) == SubSeq(url, i + Len(CHOOSE l \in lits : IdAt(url, l, i)),
                                i + Len(CHOOSE l \in lits : IdAt(url, l, i)) + VideoIdLen - 1)

\* match.group(1) of the leftmost match, "" when the pattern is not found
LeftmostGroup(url, lits, hits) == IF hits = {} THEN "" ELSE GroupAt(url, lits, MinOf(hits))
PatternGroup(url, lits) == LeftmostGroup(url, lits, PatternHits(url, lits))

\* a when it is not empty, else b
NonEmptyOr(a, b) == IF a # "" THEN a ELSE b

\* the for loop over the patterns: the group of the first pattern that matches
RECURSIVE SearchPatterns(_, _)
SearchPatterns(url, k) == IF k > Len(IdPatterns) THEN ""
                          ELSE NonEmptyOr(PatternGroup(url, IdPatterns[k]), SearchPatterns(url, k + 1))

\* parse_qs(query)['v'][0], None when there is no 'v' parameter
FirstValue(vs) == IF vs = <<>> THEN JNull ELSE JStr(vs[1].value)

\* the fallback of _extract_video_id: parse_qs(urlparse(url).query)['v'][0], None when
\* urlparse raises or there is no 'v' parameter
QueryParamV(url) == IF UrlparseRaises(url) THEN JNull
                    ELSE FirstValue(QsValues(UrlQuery(url), "v"))

\* the matched id when a pattern matched, else the fallback
IdOrFallback(group, url) == IF group # "" THEN JStr(group) ELSE QueryParamV(url)

\* TakeoutWatchHistoryItem._extract_video_id on a str
extract_video_id(url) == IF url = "" THEN JNull
                         ELSE IdOrFallback(SearchPatterns(url, 1), url)

\* -------------------------------------------------- datetime and strptime
\* A datetime is <<year, month, day, hour, minute, second, aware>> (aware = 1 when it
\* carries a UTC offset); None is the empty tuple.

NoneTs == <<>>
\* datetime.min
DatetimeMin == <<1, 1, 1, 0, 0, 0, 0>>

MonthAbbr == <<"jan", "feb", "mar", "apr", "may", "jun", "jul", "aug", "sep", "oct", "nov", "dec">>
MonthIndex(abbr) == CHOOSE i \in 1..Len(MonthAbbr) : MonthAbbr[i] = abbr

IsLeap(y) == (y % 4 = 0 /\ y % 100 # 0) \/ y % 400 = 0
DaysInMonth(y, m) == IF m = 2 THEN (IF IsLeap(y) THEN 29 ELSE 28)
                     ELSE IF m \in {4, 6, 9, 11} THEN 30 ELSE 31

\* a < b on naive datetimes (lexicographic on the first six fields)
DtLess(a, b) == \E k \in 1..6 : a[k] < b[k] /\ \A j \in 1..(k - 1) : a[j] = b[j]

\* the number read from the digits s[i..j]
RECURSIVE NumAt(_, _, _)
NumAt(s, i, j) == IF j < i THEN 0 ELSE 10 * NumAt(s, i, j - 1) + DigitVal(Char(s, j))
DigitsAt(s, i, n) == i + n - 1 <= Len(s) /\ \A k \in i..(i + n - 1) : Char(s, k) \in DigitSet

\* length of the run of whitespace starting at position i
SpaceRun(s, i) == FirstIn({k \in i..Len(s) : ~IsSpace(Char(s, k))}, Len(s) + 1) - i

\* One directive of a strptime format matched at position i of s, as the regular
\* expression _strptime builds for it does: the number of characters taken (-1 when
\* there is no match). Two digits are taken when they form an allowed value, else one.
TokLen(tok, s, i) ==
    CASE tok = "%d" -> IF DigitsAt(s, i, 2) /\ NumAt(s, i, i + 1) >= 1 /\ NumAt(s, i, i + 1) <= 31 THEN 2
                       ELSE IF DigitsAt(s, i, 1) /\ DigitVal(Char(s, i)) >= 1 THEN 1
                       ELSE IF i + 1 <= Len(s) /\ Char(s, i) = " " /\ Char(s, i + 1) \in DigitSet /\ DigitVal(Char(s, i + 1)) >= 1 THEN 2
                       ELSE -1
      [] tok = "%I" -> IF DigitsAt(s, i, 2) /\ NumAt(s, i, i + 1) >= 1 /\ NumAt(s, i, i + 1) <= 12 THEN 2
                       ELSE IF DigitsAt(s, i, 1) /\ DigitVal(Char(s, i)) >= 1 THEN 1
                       ELSE -1
      [] tok = "%H" -> IF DigitsAt(s, i, 2) /\ NumAt(s, i, i + 1) <= 23 THEN 2
                       ELSE IF DigitsAt(s, i, 1) THEN 1
                       ELSE -1
      [] tok = "%M" -> IF DigitsAt(s, i, 2) /\ NumAt(s, i, i + 1) <= 59 THEN 2
                       ELSE IF DigitsAt(s, i, 1) THEN 1
                       ELSE -1
      [] tok = "%S" -> IF DigitsAt(s, i, 2) /\ NumAt(s, i, i + 1) <= 61 THEN 2
                       ELSE IF DigitsAt(s, i, 1) THEN 1
                       ELSE -1
      [] tok = "%m" -> IF DigitsAt(s, i, 2) /\ NumAt(s, i, i + 1) >= 1 /\ NumAt(s, i, i + 1) <= 12 THEN 2
                       ELSE IF DigitsAt(s, i, 1) /\ DigitVal(Char(s, i)) >= 1 THEN 1
                       ELSE -1
      [] tok = "%Y" -> IF DigitsAt(s, i, 4) THEN 4 ELSE -1
      [] tok = "%b" -> IF i + 2 <= Len(s) /\ (\E m \in 1..Len(MonthAbbr) : MonthAbbr[m] = Lower(SubSeq(s, i, i + 2))) THEN 3 ELSE -1
      [] tok = "%p" -> IF i + 1 <= Len(s) /\ Lower(SubSeq(s, i, i + 1)) \in {"am", "pm"} THEN 2 ELSE -1
      [] tok = " "  -> IF SpaceRun(s, i) >= 1 THEN SpaceRun(s, i) ELSE -1
      [] OTHER      -> IF i <= Len(s) /\ Char(s, i) = tok THEN 1 ELSE -1

\* the value a matched directive contributes
TokVal(tok, s, i, n) ==
    CASE tok = "%b" -> MonthIndex(Lower(SubSeq(s, i, i + 2)))
      [] tok = "%p" -> IF Lower(SubSeq(s, i, i + 1)) = "pm" THEN 2 ELSE 1
      [] tok = "%d" -> IF Char(s, i) = " " THEN DigitVal(Char(s, i + 1)) ELSE NumAt(s, i, i + n - 1)
      [] OTHER      -> NumAt(s, i, i + n - 1)

\* the fields found by matching the whole of s against a format; ok is false when
\* the format does not match or data remains
StrpDefaults == [ok |-> TRUE, Y |-> 1900, b |-> 1, d |-> 1, H |-> 0, I |-> 0, M |-> 0, S |-> 0, p |-> 0, hasI |-> FALSE]
StrpFail == [ok |-> FALSE]

\* the fields after directive tok has contributed value v
WithField(acc, tok, v) ==
    CASE tok = "%Y" -> [acc EXCEPT !.Y = v]
      [] tok = "%b" -> [acc EXCEPT !.b = v]
      [] tok = "%m" -> [acc EXCEPT !.b = v]
      [] tok = "%d" -> [acc EXCEPT !.d = v]
      [] tok = "%H" -> [acc EXCEPT !.H = v]
      [] tok = "%I" -> [acc EXCEPT !.I = v, !.hasI = TRUE]
      [] tok = "%M" -> [acc EXCEPT !.M = v]
      [] tok = "%S" -> [acc EXCEPT !.S = v]
      [] tok = "%p" -> [acc EXCEPT !.p = v]
      [] OTHER -> acc

RECURSIVE StrpFields(_, _, _, _, _)
StrpTaken(fmt, k, s, i, acc, n) ==
    IF n < 0 THEN StrpFail
    ELSE IF Len(fmt[k]) = 2 THEN StrpFields(fmt, k + 1, s, i + n, WithField(acc, fmt[k], TokVal(fmt[k], s, i, n)))
    ELSE StrpFields(fmt, k + 1, s, i + n, acc)
StrpFields(fmt, k, s, i, acc) ==
    IF k > Len(fmt) THEN (IF i = Len(s) + 1 THEN acc ELSE StrpFail)
    ELSE StrpTaken(fmt, k, s, i, acc, TokLen(fmt[k], s, i))

\* the hour of the day from %H, or from %I and %p (12 AM is 0, 12 PM is 12)
HourOf(f) == IF ~f.hasI THEN f.H
             ELSE IF f.p = 2 THEN (IF f.I = 12 THEN 12 ELSE f.I + 12)
             ELSE (IF f.I = 12 THEN 0 ELSE f.I)

\* the datetime built from matched fields, NoneTs where it raises ValueError (no
\* match, or a date or time that does not exist)
DatetimeOf(f) == IF f.ok /\ f.Y >= 1 /\ f.d <= DaysInMonth(f.Y, f.b) /\ f.S <= 59
                 THEN <<f.Y, f.b, f.d, HourOf(f), f.M, f.S, 0>>
                 ELSE NoneTs

\* datetime.strptime(s, fmt), the format given as its directives and literal characters
\* (a blank of the format matches a run of whitespace)
Strptime(s, fmt) == DatetimeOf(StrpFields(fmt, 1, s, 1, StrpDefaults))

\* the formats _parse_timestamp tries, in order
TakeoutFormats == <<
    <<"%b", " ", "%d", ",", " ", "%Y", ",", " ", "%I", ":", "%M", ":", "%S", " ", "%p">>,
    <<"%b", " ", "%d", ",", " ", "%Y", ",", " ", "%H", ":", "%M", ":", "%S">>,
    <<"%Y", "-", "%m", "-", "%d", " ", "%H", ":", "%M", ":", "%S">>,
    <<"%Y", "-", "%m", "-", "%d", "T", "%H", ":", "%M", ":", "%S">> >>
DateOnlyFormat == <<"%b", " ", "%d", ",", " ", "%Y">>

\* s ends with k capitals that follow whitespace
EndsWithCaps(s, k) == /\ Len(s) > k
                      /\ \A j \in (Len(s) - k + 1)..Len(s) : Char(s, j) \in UpperSet
                      /\ IsSpace(Char(s, Len(s) - k))
\* s without its last k characters and the whitespace before them
UpToLast(s, keep) == IF keep = {} THEN "" ELSE SubSeq(s, 1, MaxOf(keep))
CutBlank(s, k) == UpToLast(s, {j \in 1..(Len(s) - k) : ~IsSpace(Char(s, j))})

\* re.sub(r'\s+[A-Z]{3,4}$', '', s): a trailing timezone abbreviation and the
\* whitespace before it are removed
StripTz(s) == IF EndsWithCaps(s, 4) THEN CutBlank(s, 4)
              ELSE IF EndsWithCaps(s, 3) THEN CutBlank(s, 3)
              ELSE s

\* re.search(r'(\w{3}\s+\d{1,2},\s+\d{4})', s): the end of a match starting at i, 0 when none
DayDigits(s, d) == IF DigitsAt(s, d, 2) /\ d + 2 <= Len(s) /\ Char(s, d + 2) = "," THEN 2
                   ELSE IF DigitsAt(s, d, 1) /\ d + 1 <= Len(s) /\ Char(s, d + 1) = "," THEN 1
                   ELSE 0
AfterComma(s, c) == IF SpaceRun(s, c) >= 1 /\ DigitsAt(s, c + SpaceRun(s, c), 4) THEN c + SpaceRun(s, c) + 3 ELSE 0
AfterDay(s, d, nd) == IF nd >= 1 THEN AfterComma(s, d + nd + 1) ELSE 0
AfterWord(s, a) == IF SpaceRun(s, a) >= 1 THEN AfterDay(s, a + SpaceRun(s, a), DayDigits(s, a + SpaceRun(s, a))) ELSE 0
DateMatchEnd(s, i) == IF i + 2 <= Len(s) /\ (\A k \in i..(i + 2) : Char(s, k) \in WordSet) THEN AfterWord(s, i + 3) ELSE 0

\* the text of the leftmost match, "" when the pattern is not found
DateMatchAt(s, hits) == IF hits = {} THEN "" ELSE SubSeq(s, MinOf(hits), DateMatchEnd(s, MinOf(hits)))
DateMatch(s) == DateMatchAt(s, {i \in 1..Len(s) : DateMatchEnd(s, i) > 0})

\* a when it is a datetime, else b
OrElse(a, b) == IF a # NoneTs THEN a ELSE b

\* the for loop over the formats: the first format that parses
RECURSIVE FirstFormat(_, _)
FirstFormat(s, k) == IF k > Len(TakeoutFormats) THEN NoneTs
                     ELSE OrElse(Strptime(s, TakeoutFormats[k]), FirstFormat(s, k + 1))

\* the date-only fallback: strptime on the text the pattern found
DateFallback(m) == IF m = "" THEN NoneTs ELSE Strptime(m, DateOnlyFormat)

\* TakeoutWatchHistoryItem._parse_timestamp: never raises, None when nothing parses
\* (a value that is not a str makes re.sub raise TypeError, caught by the handler)
takeout_parse_timestamp(v) ==
    IF ~Truthy(v) THEN NoneTs
    ELSE IF ~IsStr(v) THEN NoneTs
    ELSE OrElse(FirstFormat(StripTz(v.s), 1), DateFallback(DateMatch(v.s)))

\* str.replace('Z', '+00:00')
RECURSIVE ReplaceZ(_)
ReplaceZ(s) == IF s = "" THEN ""
               ELSE (IF Char(s, 1) = "Z" THEN "+00:00" ELSE Char(s, 1)) \o ReplaceZ(From(s, 2))

\* the text has the shape YYYY-MM-DDTHH:MM:SS, optionally followed by +00:00
IsoShape(s) == /\ Len(s) \in {19, 25}
               /\ DigitsAt(s, 1, 4) /\ Char(s, 5) = "-" /\ DigitsAt(s, 6, 2) /\ Char(s, 8) = "-" /\ DigitsAt(s, 9, 2)
               /\ Char(s, 11) = "T"
               /\ DigitsAt(s, 12, 2) /\ Char(s, 14) = ":" /\ DigitsAt(s, 15, 2) /\ Char(s, 17) = ":" /\ DigitsAt(s, 18, 2)
               /\ (Len(s) = 25 => SubSeq(s, 20, 25) = "+00:00")
IsoDatetime(y, mo, d, h, mi, sec, aware) ==
    IF y >= 1 /\ mo >= 1 /\ mo <= 12 /\ d >= 1 /\ d <= DaysInMonth(y, mo) /\ h <= 23 /\ mi <= 59 /\ sec <= 59
    THEN <<y, mo, d, h, mi, sec, aware>>
    ELSE NoneTs

\* datetime.fromisoformat on the shapes YYYY-MM-DDTHH:MM:SS and YYYY-MM-DDTHH:MM:SS+00:00;
\* every other text is taken to raise ValueError
FromIsoformat(s) ==
    IF IsoShape(s)
    THEN IsoDatetime(NumAt(s, 1, 4), NumAt(s, 6, 7), NumAt(s, 9, 10), NumAt(s, 12, 13), NumAt(s, 15, 16), NumAt(s, 18, 19),
                     IF Len(s) = 25 THEN 1 ELSE 0)
    ELSE NoneTs

\* WatchHistoryItem._parse_timestamp: None for a falsy value, for a value without
\* replace() (AttributeError) and for a text fromisoformat rejects (ValueError)
api_parse_timestamp(v) ==
    IF ~Truthy(v) THEN NoneTs
    ELSE IF ~IsStr(v) THEN NoneTs
    ELSE FromIsoformat(ReplaceZ(v.s))

\* ------------------------------------------------------- canonical records
\* The attributes of a WatchHistoryItem / TakeoutWatchHistoryItem object; cls names
\* the class (the two classes export differently).

Item(cls, title, channel, vid, url, published, ts, desc, type) ==
    [cls |-> cls, title |-> title, channel_title |-> channel, video_id |-> vid, video_url |-> url,
     published_at |-> published, timestamp |-> ts, description |-> desc, activity_type |-> type]

\* the outcome of a constructor call: the object, or an exception
Built(item) == [raised |-> FALSE, item |-> item]
NoItem == Item("none", JNull, JNull, JNull, JNull, JNull, NoneTs, JNull, JNull)
Raised == [raised |-> TRUE, item |-> NoItem]

UnknownTitle == JStr("Unknown Title")
UnknownChannel == JStr("Unknown Channel")

\* f"https://www.youtube.com/watch?v={video_id}"; a video id that is not a str is
\* formatted as some text
WatchUrl(vid) == JStr("https://www.youtube.com/watch?v=" \o (IF IsStr(vid) THEN vid.s ELSE "<value>"))

\* ---------------------------------------------------- WatchHistoryItem (API)
\* A raw activity item: snippet is "obj", "null" or "absent"; the snippet's fields are
\* JSON values; cd is the shape of contentDetails:
\*   "absent"        no contentDetails key
\*   "null"          contentDetails: null
\*   "upload"        {upload: {videoId}}
\*   "uploadNull"    {upload: null}
\*   "playlistItem"  {playlistItem: {resourceId: {videoId}}}
\*   "recommendation" {recommendation: {resourceId: {videoId}}}

ApiItem(snippet, type, title, channel, desc, published, cd, vid) ==
    [snippet |-> snippet, type |-> type, title |-> title, channelTitle |-> channel,
     description |-> desc, publishedAt |-> published, cd |-> cd, videoId |-> vid]

\* snippet.get(key, default) where snippet = data.get('snippet', {})
SnippetGet(data, v, default) == IF data.snippet = "absent" THEN default ELSE Get(v, default)

\* a faulty variant of ApiVideoId: the recommendation member is read as well
ApiVideoIdAnyMember(data) ==
    IF data.cd \in {"upload", "playlistItem", "recommendation"} THEN Get(data.videoId, JNull) ELSE JNull
\* the video id read from contentDetails: the upload path, then the playlistItem path
ApiVideoId(data) ==
    IF data.cd = "upload" THEN Get(data.videoId, JNull)
    ELSE IF data.cd = "playlistItem" THEN Get(data.videoId, JNull)
    ELSE JNull

\* the object once its video id and publishedAt are known
ApiRecord(data, vid, published) ==
    Item("api",
         SnippetGet(data, data.title, UnknownTitle),
         SnippetGet(data, data.channelTitle, UnknownChannel),
         vid,
         IF Truthy(vid) THEN WatchUrl(vid) ELSE JNull,
         published,
         api_parse_timestamp(published),
         SnippetGet(data, data.description, JStr("")),
         SnippetGet(data, data.type, JStr("")))

\* WatchHistoryItem.__init__: it raises when snippet is null (None.get) and when
\* contentDetails or its 'upload' member is null ('upload' in None, None['videoId'])
WatchHistoryItem(data) ==
    IF data.snippet = "null" \/ data.cd \in {"null", "uploadNull"} THEN Raised
    ELSE Built(ApiRecord(data, ApiVideoId(data), SnippetGet(data, data.publishedAt, JStr(""))))

\* ------------------------------------------------ TakeoutWatchHistoryItem
\* A raw Takeout entry: kind is "obj" for a JSON object and "str" for any other JSON
\* value; title, titleUrl and time are JSON values; subtitles is "absent", "null" or
\* "list" with the elements in subs. A subtitle element is [k |-> "obj", name |-> value]
\* for an object or [k |-> "str", name |-> JStr(text)] for a string.

TakeoutEntry(kind, title, titleUrl, subtitles, subs, time) ==
    [kind |-> kind, title |-> title, titleUrl |-> titleUrl, subtitles |-> subtitles, subs |-> subs, time |-> time]

SubObj(name) == [k |-> "obj", name |-> name]
SubStr(s) == [k |-> "str", name |-> JStr(s)]

WatchedPrefix == "Watched "

\* TakeoutWatchHistoryItem._extract_channel_name
RECURSIVE extract_channel_name(_)
ChannelFrom(sub, rest) ==
    IF sub.k = "obj" /\ Truthy(Get(sub.name, JStr(""))) THEN sub.name
    ELSE IF sub.k = "str" THEN sub.name
    ELSE extract_channel_name(rest)
extract_channel_name(subs) ==
    IF subs = <<>> THEN UnknownChannel ELSE ChannelFrom(Head(subs), Tail(subs))

\* the title with the "Watched " prefix removed: title[8:]
StripWatched(title) == IF StartsWith(title.s, WatchedPrefix) THEN JStr(From(title.s, Len(WatchedPrefix) + 1)) ELSE title

\* the object once title, video id and channel are known
TakeoutItem(title, channel, vid, title_url, time) ==
    Item("takeout", title, channel, vid, IF Truthy(vid) THEN WatchUrl(vid) ELSE title_url,
         time, takeout_parse_timestamp(time), JStr(""), JStr("watch"))

\* the constructor on the values read from the entry; it raises when title has no
\* startswith(), when the url is not a str for re.search, when subtitles is not iterable
TakeoutBuild(title, title_url, subtitles, subs, time) ==
    IF ~IsStr(title) \/ (Truthy(title_url) /\ ~IsStr(title_url)) \/ subtitles = "null" THEN Raised
    ELSE Built(TakeoutItem(StripWatched(title),
                           extract_channel_name(IF subtitles = "list" THEN subs ELSE <<>>),
                           IF Truthy(title_url) THEN extract_video_id(title_url.s) ELSE JNull,
                           title_url, time))

\* TakeoutWatchHistoryItem.__init__
TakeoutWatchHistoryItem(data) ==
    TakeoutBuild(Get(data.title, UnknownTitle), Get(data.titleUrl, JStr("")), data.subtitles, data.subs, Get(data.time, JStr("")))

\* ------------------------------------------- HistoryRetriever (API store)

AcceptedTypes == {JStr("upload"), JStr("playlistItem"), JStr("recommendation")}

\* item['snippet'].get('type', '') raises when the item has no snippet object; the
\* statement stands outside the inner try
SnippetAccessRaises(data) == data.snippet # "obj"

\* `if history_item.video_id:` on a constructed item, and the inner except clause
ApiKeeps(built) == ~built.raised /\ Truthy(built.item.video_id)

\* The for loop of get_watch_history from item k on, history_items so far in acc.
\* aborted: an exception left the loop and reached the outer handler.
RECURSIVE ApiLoop(_, _, _)
ApiAppend(items, k, acc, built) ==
    IF ApiKeeps(built) THEN ApiLoop(items, k + 1, Append(acc, built.item)) ELSE ApiLoop(items, k + 1, acc)
ApiStep(items, k, acc, data) ==
    IF SnippetAccessRaises(data) THEN [aborted |-> TRUE, items |-> acc]
    ELSE IF Get(data.type, JStr("")) \notin AcceptedTypes THEN ApiLoop(items, k + 1, acc)
    ELSE ApiAppend(items, k, acc, WatchHistoryItem(data))
ApiLoop(items, k, acc) ==
    IF k > Len(items) THEN [aborted |-> FALSE, items |-> acc] ELSE ApiStep(items, k, acc, items[k])

\* ------------------------------------------------ search_history (both stores)

\* query_lower in item.<field>.lower(): "raise" when the field has no lower()
FieldTest(v, query_lower) == IF ~IsStr(v) THEN "raise"
                             ELSE IF Contains(Lower(v.s), query_lower) THEN "hit" ELSE "miss"

\* the condition of the if statement in search_history with Python's short-circuit
\* or: the first field that is not a miss decides
RECURSIVE MatchTest(_, _)
FirstDecisive(test, rest, query_lower) == IF test # "miss" THEN test ELSE MatchTest(rest, query_lower)
MatchTest(fields, query_lower) ==
    IF fields = <<>> THEN "miss" ELSE FirstDecisive(FieldTest(Head(fields), query_lower), Tail(fields), query_lower)

\* the fields each store searches, in the order of the source
SearchFields(item) == IF item.cls = "api" THEN <<item.title, item.channel_title, item.description>>
                      ELSE <<item.title, item.channel_title>>

\* the for loop of search_history from item k on
RECURSIVE SearchLoop(_, _, _, _)
SearchStep(history, query_lower, k, acc, m) ==
    IF m = "raise" THEN [raised |-> TRUE, items |-> <<>>]
    ELSE SearchLoop(history, query_lower, k + 1, IF m = "hit" THEN Append(acc, history[k]) ELSE acc)
SearchLoop(history, query_lower, k, acc) ==
    IF k > Len(history) THEN [raised |-> FALSE, items |-> acc]
    ELSE SearchStep(history, query_lower, k, acc, MatchTest(SearchFields(history[k]), query_lower))

\* search_history(query, history) of either store; history is what the store searches
\* (the argument, or the cache when the argument is None)
search_history(query, history) ==
    IF history = <<>> THEN [raised |-> FALSE, items |-> <<>>]
    ELSE SearchLoop(history, Lower(query), 1, <<>>)

\* ------------------------------------------- TakeoutProcessor (Takeout store)

VideoMarker == "youtube.com/watch"

\* a faulty variant of KeepOrSkip: every constructed item is kept, with or without a video id
KeepOrSkipAnyId(built) == IF built.raised THEN [outcome |-> "error", item |-> NoItem]
                          ELSE [outcome |-> "keep", item |-> built.item]
\* `if item.video_id:` on a constructed item, and the except clause on a raised exception
KeepOrSkip(built) == IF built.raised THEN [outcome |-> "error", item |-> NoItem]
                     ELSE IF Truthy(built.item.video_id) THEN [outcome |-> "keep", item |-> built.item]
                     ELSE [outcome |-> "skip", item |-> NoItem]

\* what the body of the for loop of load_watch_history does with one entry: "keep" with
\* the item appended, "skip" for a filtered entry, "error" for an exception (also skipped)
EntryOutcome(entry) ==
    IF entry.kind # "obj" THEN [outcome |-> "error", item |-> NoItem]
    ELSE IF ~Truthy(Get(entry.title, JNull)) \/ ~Truthy(Get(entry.titleUrl, JNull)) THEN [outcome |-> "skip", item |-> NoItem]
    ELSE IF ~IsStr(entry.titleUrl) THEN [outcome |-> "error", item |-> NoItem]
    ELSE IF ~Contains(entry.titleUrl.s, VideoMarker) THEN [outcome |-> "skip", item |-> NoItem]
    ELSE KeepOrSkip(TakeoutWatchHistoryItem(entry))

\* the for loop of load_watch_history from entry k on: history_items in acc, the
\* skipped counter in skipped
RECURSIVE TakeoutLoop(_, _, _, _)
\* a faulty variant of TakeoutStep: an entry that is not kept is not counted
TakeoutStepUncounted(data, k, acc, skipped, r) ==
    IF r.outcome = "keep" THEN TakeoutLoop(data, k + 1, Append(acc, r.item), skipped)
    ELSE TakeoutLoop(data, k + 1, acc, skipped)
TakeoutStep(data, k, acc, skipped, r) ==
    IF r.outcome = "keep" THEN TakeoutLoop(data, k + 1, Append(acc, r.item), skipped)
    ELSE TakeoutLoop(data, k + 1, acc, skipped + 1)
TakeoutLoop(data, k, acc, skipped) ==
    IF k > Len(data) THEN [items |-> acc, skipped |-> skipped]
    ELSE TakeoutStep(data, k, acc, skipped, EntryOutcome(data[k]))

\* key=lambda x: x.timestamp or datetime.min
SortKey(item) == IF item.timestamp = NoneTs THEN DatetimeMin ELSE item.timestamp

\* list.sort(key=..., reverse=True): descending and stable, so an element goes after
\* every element whose key is greater than or equal to its own
InsertAfter(sorted, item, n) == SubSeq(sorted, 1, n) \o <<item>> \o SubSeq(sorted, n + 1, Len(sorted))
InsertDesc(sorted, item) ==
    InsertAfter(sorted, item, MaxOf({0} \cup {i \in 1..Len(sorted) : ~DtLess(SortKey(sorted[i]), SortKey(item))}))

RECURSIVE SortDesc(_)
SortDesc(items) == IF items = <<>> THEN <<>>
                   ELSE InsertDesc(SortDesc(SubSeq(items, 1, Len(items) - 1)), items[Len(items)])

\* ------------------------------------------------ export_to_json (both stores)

\* the length from which to_dict shortens a description
DescriptionLimit == 200

\* self.description[:200] + '...' if len(self.description) > 200 else self.description
Shortened(desc) == IF Len(desc.s) > DescriptionLimit THEN JStr(SubSeq(desc.s, 1, DescriptionLimit) \o "...") ELSE desc

\* WatchHistoryItem.to_dict / TakeoutWatchHistoryItem.to_dict: when names the key the
\* raw time text goes under; timestamp is the datetime whose isoformat() is written
to_dict(item) ==
    [title |-> item.title, channel |-> item.channel_title, video_id |-> item.video_id, video_url |-> item.video_url,
     when |-> IF item.cls = "api" THEN "published_at" ELSE "watched_at", at |-> item.published_at,
     timestamp |-> item.timestamp, activity_type |-> item.activity_type,
     description |-> IF item.cls = "api" THEN Shortened(item.description) ELSE item.description]

\* export_to_json(history, filename): the list json.dump writes, or the exception the
\* handler reports; io is "ok" or "io_error" (open or the write fails). The list is
\* built before the file is opened, and len(self.description) of the API class raises
\* TypeError on a description that is not a str.
export_to_json(history, io) ==
    IF \E i \in 1..Len(history) : history[i].cls = "api" /\ ~IsStr(history[i].description)
    THEN [t |-> "error", error |-> "TypeError", data |-> <<>>]
    ELSE IF io # "ok" THEN [t |-> "error", error |-> "OSError", data |-> <<>>]
    ELSE [t |-> "file", error |-> "none", data |-> [i \in 1..Len(history) |-> to_dict(history[i])]]

\* ------------------------------------------------ summaries (both stores)

\* limit=10 of TakeoutProcessor.get_top_channels, sorted_channels[:5] of the API summary
TopLimit == 10
ApiTopLimit == 5

\* the channel_counts dict after the for loop from record k on: <<channel, count>>
\* pairs in the order the keys were inserted
RECURSIVE ChannelCounts(_, _, _)
ChannelCounts(history, k, acc) ==
    IF k > Len(history) THEN acc
    ELSE LET channel == history[k].channel_title IN
         IF \E i \in 1..Len(acc) : acc[i][1] = channel
         THEN ChannelCounts(history, k + 1, [i \in 1..Len(acc) |-> IF acc[i][1] = channel THEN <<channel, acc[i][2] + 1>> ELSE acc[i]])
         ELSE ChannelCounts(history, k + 1, Append(acc, <<channel, 1>>))

\* a faulty variant of SortByCount: a pair goes before the pairs of the same count
RECURSIVE SortByCountUnstable(_)
SortByCountUnstable(pairs) ==
    IF pairs = <<>> THEN <<>>
    ELSE LET sorted == SortByCountUnstable(SubSeq(pairs, 1, Len(pairs) - 1))
             pair == pairs[Len(pairs)] IN
         InsertAfter(sorted, pair, MaxOf({0} \cup {i \in 1..Len(sorted) : sorted[i][2] > pair[2]}))
\* sorted(items, key=lambda x: x[1], reverse=True): descending and stable, so a pair
\* goes after every pair whose count is greater than or equal to its own
RECURSIVE SortByCount(_)
SortByCount(pairs) ==
    IF pairs = <<>> THEN <<>>
    ELSE LET sorted == SortByCount(SubSeq(pairs, 1, Len(pairs) - 1))
             pair == pairs[Len(pairs)] IN
         InsertAfter(sorted, pair, MaxOf({0} \cup {i \in 1..Len(sorted) : sorted[i][2] >= pair[2]}))

\* TakeoutProcessor.get_top_channels(history, limit), and the same three statements in
\* HistoryRetriever.print_summary; limit is not negative
get_top_channels(history, limit) ==
    LET sorted == SortByCount(ChannelCounts(history, 1, <<>>)) IN SubSeq(sorted, 1, MinOf({limit, Len(sorted)}))

\* TakeoutProcessor.get_date_range(history), and min / max in HistoryRetriever.print_summary:
\* none when no record has a timestamp; comparing a datetime that carries an offset
\* with one that does not raises TypeError
get_date_range(history) ==
    LET timestamps == {history[i].timestamp : i \in 1..Len(history)} \ {NoneTs} IN
    IF timestamps = {} THEN [raised |-> FALSE, oldest |-> NoneTs, newest |-> NoneTs]
    ELSE IF \E a, b \in timestamps : a[7] # b[7] THEN [raised |-> TRUE, oldest |-> NoneTs, newest |-> NoneTs]
    ELSE [raised |-> FALSE,
          oldest |-> CHOOSE a \in timestamps : \A b \in timestamps : ~DtLess(b, a),
          newest |-> CHOOSE a \in timestamps : \A b \in timestamps : ~DtLess(a, b)]

\* ------------------------------------------------------------------ inputs

\* the longest batch of raw items an ingestion call is given
MaxBatch == 2

\* DEFAULT_MAX_RESULTS of config.py and the API's limit per request
DEFAULT_MAX_RESULTS == 50
ApiLimit == 50

\* raw activity items the API may return
Api == LET fifty == "a Python recipe, told at length and in every step "
       twohundred == fifty \o fifty \o fifty \o fifty IN [
    Good |-> ApiItem("obj", JStr("upload"), JStr("Learning python basics"), JStr("Tech"), JStr(twohundred),
                     JStr("2023-12-15T15:45:23Z"), "upload", JStr("dQw4w9WgXcQ")),
    Untitled |-> ApiItem("obj", JStr("recommendation"), JStr(""), JStr("Chef"), JStr(twohundred \o "!"),
                         Absent, "playlistItem", JStr("abcdefghijk")),
    NullTitle |-> ApiItem("obj", JStr("upload"), JNull, Absent, JNull,
                          JStr("2024-01-02T10:00:00"), "upload", JStr("A-b_C-d_E-f")),
    NoSnippet |-> ApiItem("absent", Absent, Absent, Absent, Absent, Absent, "upload", JStr("A-b_C-d_E-f")),
    UploadNull |-> ApiItem("obj", JStr("playlistItem"), JStr("Broken"), JStr("Tech"), JStr(""), JStr(""), "uploadNull", Absent),
    Recommendation |-> ApiItem("obj", JStr("recommendation"), JStr("For you"), JStr("Tech"), JStr(""), JStr(""),
                               "recommendation", JStr("A-b_C-d_E-f")),
    Like |-> ApiItem("obj", JStr("like"), JStr("Liked"), JStr("Tech"), JStr(""), JStr(""), "upload", JStr("dQw4w9WgXcQ"))]

ApiItems == {Api[n] : n \in DOMAIN Api}

\* raw Takeout entries
Tk == [
    Good |-> TakeoutEntry("obj", JStr("Watched Learning python basics"), JStr("https://www.youtube.com/watch?v=dQw4w9WgXcQ"),
                          "list", <<SubObj(JStr("Tech"))>>, JStr("Dec 15, 2023, 3:45:23 PM PST")),
    Oldest |-> TakeoutEntry("obj", JStr("Python tips"), JStr("https://www.youtube.com/watch?v=abcdefghijk"),
                            "list", <<SubObj(Absent), SubObj(JStr("Chef"))>>, JStr("Jan 1, 0001, 12:00:00 AM")),
    BarePrefix |-> TakeoutEntry("obj", JStr("Watched "), JStr("https://www.youtube.com/watch?v=A-b_C-d_E-f"),
                                "list", <<SubStr(""), SubObj(JStr("X"))>>, JStr("")),
    ShortId |-> TakeoutEntry("obj", JStr("Cooking"), JStr("https://www.youtube.com/watch?v=abc"),
                             "absent", <<>>, JStr("2024-01-02 10:00:00")),
    NoUrl |-> TakeoutEntry("obj", JStr("Watched a video that has been removed"), Absent,
                           "absent", <<>>, JStr("Dec 15, 2023, 3:45:23 PM PST")),
    NoId |-> TakeoutEntry("obj", JStr("Watched a playlist"), JStr("https://www.youtube.com/watch?list=PL"),
                          "absent", <<>>, JStr("2024-01-02T10:00:00")),
    Search |-> TakeoutEntry("obj", JStr("Searched for python"), JStr("https://www.youtube.com/results?search_query=python"),
                            "absent", <<>>, JStr("Dec 17, 2023")),
    NumTitle |-> TakeoutEntry("obj", JNum, JStr("https://www.youtube.com/watch?v=dQw4w9WgXcQ"), "absent", <<>>, JNum),
    NotObject |-> TakeoutEntry("str", Absent, Absent, "absent", <<>>, Absent)]

TakeoutEntries == {Tk[n] : n \in DOMAIN Tk}

\* the sequences over S of length at most n
SeqsUpTo(S, n) == UNION {[1..k -> S] : k \in 0..n}

\* what the Takeout path may hold: no file, a file that is not JSON, a JSON number,
\* a JSON array of entries
TakeoutFiles == {[kind |-> k, data |-> <<>>] : k \in {"missing", "badjson", "number"}}
                \cup {[kind |-> "array", data |-> d] : d \in SeqsUpTo(TakeoutEntries, MaxBatch)}

\* queries given to search_history directly
Queries == {"PYTHON", "chef", ""}
\* lines typed at the Search> prompt
PromptLines == {" PYTHON ", "  ", "", "Quit", "x"}
QuitWords == {"quit", "exit", "q"}

\* ------------------------------------------------------------- the program

VARIABLES
    mode,     \* which store this run owns: "api" (HistoryRetriever) or "takeout" (TakeoutProcessor)
    cache,    \* the store's _cache
    history,  \* the caller's history: the collection the most recent ingestion call returned
    last      \* the most recent call: its arguments and its outcome

vars == <<mode, cache, history, last>>

\* op       the call: "init", "get_watch_history", "load_watch_history", "search_history",
\*          "prompt" (one round of run_interactive_search), "extract" (_extract_video_id),
\*          "export_to_json", "print_summary", "get_top_channels"
\* input    the raw batch an ingestion call processed
\* source   how the call's input arrived: the file kind, "api" / "api_error", or for a
\*          search "cache" (history argument None) / "history"; for an export how the
\*          file I/O went: "ok" / "io_error"
\* line     the line typed at the prompt, the url of an extraction
\* query    the query search_history was given
\* raised   the exception that left the call, "none" when it returned
\* ret      the collection returned (<<>> when it raised)
\* searched the collection search_history looked through, the collection an export or
\*          a summary was given
\* called   whether search_history was called
\* skipped  load_watch_history: the skipped counter
\* value    extract: the value returned; export: what export_to_json made; summary:
\*          what was computed
Call(op, input, source, line, query, raised, ret, searched, called, skipped, value) ==
    [op |-> op, input |-> input, source |-> source, line |-> line, query |-> query, raised |-> raised,
     ret |-> ret, searched |-> searched, called |-> called, skipped |-> skipped, value |-> value]

NoCall == Call("init", <<>>, "none", "", "", "none", <<>>, <<>>, FALSE, 0, JNull)

Init == /\ mode \in {"api", "takeout"}
        /\ cache = <<>>
        /\ history = <<>>
        /\ last = NoCall

\* what request.execute() may answer to maxResults=min(max_results, 50) when main.py
\* asks for DEFAULT_MAX_RESULTS: at most that many items
ApiResponses == {items \in SeqsUpTo(ApiItems, MaxBatch) : Len(items) <= MinOf({DEFAULT_MAX_RESULTS, ApiLimit})}

\* every response the model draws with what the for loop makes of it, computed once
ApiCalls == {[items |-> items, outcome |-> ApiLoop(items, 1, <<>>)] : items \in ApiResponses}

\* HistoryRetriever.get_watch_history when the API call itself raises: the outer handler
\* returns [] and the cache is left as it was
GetWatchHistoryApiError ==
    /\ mode = "api"
    /\ history' = <<>>
    /\ last' = Call("get_watch_history", <<>>, "api_error", "", "", "none", <<>>, <<>>, FALSE, 0, JNull)
    /\ UNCHANGED <<mode, cache>>

\* the store and the caller after the loop: an exception that left the loop reached the
\* outer handler, which returns [] without touching the cache
ApiReturn(items, r) ==
    /\ cache' = IF r.aborted THEN cache ELSE r.items
    /\ history' = IF r.aborted THEN <<>> ELSE r.items
    /\ last' = Call("get_watch_history", items, "api", "", "", "none", IF r.aborted THEN <<>> ELSE r.items, <<>>, FALSE, 0, JNull)

\* HistoryRetriever.get_watch_history on the items the API returned; r is the outcome
\* of its for loop on them
GetWatchHistory(items, r) ==
    /\ mode = "api"
    /\ ApiReturn(items, r)
    /\ UNCHANGED mode

\* a faulty variant of FileError: text that is not JSON is read as an empty array
FileErrorSwallowed(file) == CASE file.kind = "missing" -> "FileNotFoundError"
                              [] file.kind = "number" -> "RuntimeError"
                              [] OTHER -> "none"
\* the exception load_watch_history raises for a file it cannot read as JSON data
FileError(file) == CASE file.kind = "missing" -> "FileNotFoundError"
                     [] file.kind = "badjson" -> "ValueError"
                     [] file.kind = "number" -> "RuntimeError"
                     [] OTHER -> "none"

\* the end of load_watch_history: the items sorted, cached and returned
Loaded(r) == [raised |-> "none", items |-> SortDesc(r.items), skipped |-> r.skipped]

\* the body of load_watch_history: the exception raised, or the sorted items and the
\* skipped counter
load_watch_history(file) ==
    IF FileError(file) # "none" THEN [raised |-> FileError(file), items |-> <<>>, skipped |-> 0]
    ELSE Loaded(TakeoutLoop(file.data, 1, <<>>, 0))

\* every file the model draws with what load_watch_history makes of it, computed once
LoadCalls == {[file |-> file, outcome |-> load_watch_history(file)] : file \in TakeoutFiles}

\* the store and the caller after load_watch_history: nothing changes when it raised
LoadReturn(file, r) ==
    IF r.raised # "none"
    THEN /\ last' = Call("load_watch_history", <<>>, file.kind, "", "", r.raised, <<>>, <<>>, FALSE, 0, JNull)
         /\ UNCHANGED <<cache, history>>
    ELSE /\ cache' = r.items
         /\ history' = r.items
         /\ last' = Call("load_watch_history", file.data, file.kind, "", "", "none", r.items, <<>>, FALSE, r.skipped, JNull)

\* TakeoutProcessor.load_watch_history(file_path); r is the outcome of its body on
\* what the file holds
LoadWatchHistory(file, r) ==
    /\ mode = "takeout"
    /\ LoadReturn(file, r)
    /\ UNCHANGED mode

\* the record of a search over the collection searched
Searched(op, source, line, query, searched, r) ==
    Call(op, <<>>, source, line, query, IF r.raised THEN "AttributeError" ELSE "none", r.items, searched, TRUE, 0, JNull)

\* search_history(query) with history left None (source "cache") or
\* search_history(query, history) (source "history") on this run's store
SearchHistory(query, source) ==
    /\ mode \in {"api", "takeout"}
    /\ last' = IF source = "cache"
               THEN Searched("search_history", source, "", query, cache, search_history(query, cache))
               ELSE Searched("search_history", source, "", query, history, search_history(query, history))
    /\ UNCHANGED <<mode, cache, history>>

\* `if not query: continue` and the quit words of run_interactive_search
SkipsSearch(query) == Lower(query) \in QuitWords \/ query = ""

\* one round of the while loop once the line is stripped
PromptRound(line, query) ==
    IF SkipsSearch(query)
    THEN Call("prompt", <<>>, "history", line, "", "none", <<>>, <<>>, FALSE, 0, JNull)
    ELSE Searched("prompt", "history", line, query, history, search_history(query, history))

\* one round of the while loop of run_interactive_search(history, search_function);
\* main.py enters the loop only with a non-empty history
Prompt(line) ==
    /\ mode \in {"api", "takeout"}
    /\ history # <<>>
    /\ last' = PromptRound(line, Strip(line))
    /\ UNCHANGED <<mode, cache, history>>

\* a faulty variant of ExportToJson: the stored descriptions are shortened as well
ExportToJsonShortening(io) ==
    /\ mode \in {"api", "takeout"}
    /\ history # <<>>
    /\ last' = Call("export_to_json", <<>>, io, "", "", "none", <<>>, history, FALSE, 0, export_to_json(history, io))
    /\ history' = [i \in 1..Len(history) |-> [history[i] EXCEPT !.description = IF IsStr(@) THEN Shortened(@) ELSE @]]
    /\ UNCHANGED <<mode, cache>>
\* export_to_json(history) as main.py calls it after the search loop, on the non-empty
\* history; every exception is caught and printed
ExportToJson(io) ==
    /\ mode \in {"api", "takeout"}
    /\ history # <<>>
    /\ last' = Call("export_to_json", <<>>, io, "", "", "none", <<>>, history, FALSE, 0, export_to_json(history, io))
    /\ UNCHANGED <<mode, cache, history>>

\* print_summary(history) as main.py calls it on the non-empty history it got. The API
\* store prints its top channels and then the date range; the Takeout store gets the
\* date range first (the span in days and the average per day are printed from it) and
\* then prints each top channel with f"{percentage:.1f}", kept in shown in tenths of a
\* percent: count / len * 100 rounded to one decimal (no tie arises below 16 records).
PrintSummary ==
    /\ mode \in {"api", "takeout"}
    /\ history # <<>>
    /\ LET range == get_date_range(history)
           limit == IF mode = "api" THEN ApiTopLimit ELSE TopLimit
           top == IF mode = "takeout" /\ range.raised THEN <<>> ELSE get_top_channels(history, limit)
           shown == IF mode = "api" THEN <<>>
                    ELSE [i \in 1..Len(top) |-> (2000 * top[i][2] + Len(history)) \div (2 * Len(history))]
       IN last' = Call("print_summary", <<>>, "history", "", "", IF range.raised THEN "TypeError" ELSE "none", <<>>,
                       history, FALSE, 0, [t |-> "summary", limit |-> limit, top |-> top, shown |-> shown, range |-> range])
    /\ UNCHANGED <<mode, cache, history>>

\* TakeoutProcessor.get_top_channels(history, limit) called on its own
GetTopChannels(limit) ==
    /\ mode = "takeout"
    /\ last' = Call("get_top_channels", <<>>, "history", "", "", "none", <<>>, history, FALSE, 0,
                    [t |-> "summary", limit |-> limit, top |-> get_top_channels(history, limit), shown |-> <<>>,
                     range |-> [raised |-> FALSE, oldest |-> NoneTs, newest |-> NoneTs]])
    /\ UNCHANGED <<mode, cache, history>>

Next == \/ GetWatchHistoryApiError
        \/ \E call \in ApiCalls : GetWatchHistory(call.items, call.outcome)
        \/ \E call \in LoadCalls : LoadWatchHistory(call.file, call.outcome)
        \/ \E query \in Queries : \E source \in {"cache", "history"} : SearchHistory(query, source)
        \/ \E line \in PromptLines : Prompt(line)
        \/ \E io \in {"ok", "io_error"} : ExportToJson(io)
        \/ PrintSummary
        \/ \E limit \in {1, 2, TopLimit} : GetTopChannels(limit)

Spec == Init /\ [][Next]_vars

\* ------------------------------------------- _extract_video_id on its own
\* A second specification: one url is drawn, then _extract_video_id is applied to it.

\* the urls drawn: a head, the text where an id is expected, a tail
Urls == {h \o i \o t :
            h \in {"https://www.youtube.com/watch?v=", "https://youtu.be/", "https://www.youtube.com/embed/",
                   "https://www.youtube.com/v/", "https://www.youtube.com/watch?list=PL&v=",
                   "https://www.youtube.com/watch#?v=", "http://[x/watch?v=",
                   "https://www.youtube.com/results?search_query=", ""},
            i \in {"dQw4w9WgXcQ", "abc", "", "A-b_C-d_E-fXYZ", "a%20b+c", "abc!defghijk"},
            t \in {"", "&t=10s", "#top"}}

ExtractInit == /\ mode = "extract"
               /\ cache = <<>>
               /\ history = <<>>
               /\ last \in {Call("init", <<>>, "none", url, "", "none", <<>>, <<>>, FALSE, 0, JNull) : url \in Urls}

\* self._extract_video_id(url) on the url drawn
ExtractVideoId ==
    /\ mode = "extract"
    /\ last.op = "init"
    /\ last' = Call("extract", <<>>, "none", last.line, "", "none", <<>>, <<>>, FALSE, 0, extract_video_id(last.line))
    /\ UNCHANGED <<mode, cache, history>>

ExtractNext == ExtractVideoId

SpecExtract == ExtractInit /\ [][ExtractNext]_vars

\* ------------------------------------------- the summaries on their own
\* A third specification: a collection is drawn, then the summaries are applied to it.

\* the most records a drawn collection holds
MaxRecords == 6

\* The collections drawn: records as the constructors build them, alike but for the
\* channel. Which names the channels carry does not matter to a tally, only which
\* records share one, so a record's channel is one seen before it or the next name.
SummaryInit ==
    /\ mode \in {"api", "takeout"}
    /\ last = NoCall
    /\ history \in
          LET names == <<"Tech", "Chef", "X", "", "Unknown Channel", "A">>
              record(n) == Item(mode, JStr("Learning python basics"), JStr(names[n]), JStr("dQw4w9WgXcQ"),
                                WatchUrl(JStr("dQw4w9WgXcQ")), JStr(""), NoneTs, JStr(""),
                                JStr(IF mode = "api" THEN "upload" ELSE "watch"))
          IN {[i \in 1..Len(chans) |-> record(chans[i])] :
                 chans \in {c \in SeqsUpTo(1..6, MaxRecords) :
                               /\ c # <<>>
                               /\ \A i \in 1..Len(c) : c[i] <= 1 + MaxOf({0} \cup {c[j] : j \in 1..(i - 1)})}}
    /\ cache = history

SummaryNext == \/ PrintSummary
               \/ \E limit \in {1, 2, TopLimit} : GetTopChannels(limit)

SpecSummary == SummaryInit /\ [][SummaryNext]_vars

\* ------------------------------------------------------------- properties

\* a video id that is neither null nor empty
HasVideoId(item) == item.video_id # JNull /\ item.video_id # JStr("")
\* an ingestion call has just returned a collection
Ingested(op) == last.op = op /\ last.raised = "none"
\* a search has just been run
SearchRan == last.op \in {"search_history", "prompt"} /\ last.called
\* every character of s is whitespace
Blank(s) == \A i \in 1..Len(s) : Char(s, i) = " "
\* how often x occurs in the sequence c
Count(c, x) == Cardinality({i \in 1..Len(c) : c[i] = x})

\* C1 -- Drop invariant: every record of a returned collection and of the store's
\* cached collection has a video id that is neither null nor empty.
C1_DropInvariant ==
    \A c \in {cache, history, last.ret} : \A i \in 1..Len(c) : HasVideoId(c[i])

\* C1 happens: a Takeout load was given an entry without an extractable video id next
\* to a good one, and returned and cached only the good one.
C1_Witness ==
    /\ Ingested("load_watch_history")
    /\ last.input = <<Tk.NoId, Tk.Good>>
    /\ Len(last.ret) = 1 /\ cache = last.ret /\ history = last.ret

\* an activity item that is well formed, of an accepted type, and has a video id
WellFormed(data) == /\ data.snippet = "obj"
                    /\ data.type \in AcceptedTypes
                    /\ data.cd \in {"upload", "playlistItem"}
                    /\ data.videoId.t = "str" /\ data.videoId.s # ""

\* C2 -- Partial-failure tolerance of API ingestion: whatever else the batch holds,
\* every well-formed item of an accepted type with a video id is present in the
\* result of get_watch_history.
C2_PartialFailureTolerance ==
    (last.op = "get_watch_history" /\ last.source = "api") =>
        \A k \in 1..Len(last.input) :
            WellFormed(last.input[k]) =>
                \E j \in 1..Len(last.ret) : last.ret[j].video_id = last.input[k].videoId

\* C3 -- Cache slot is overwritten on each ingestion: the cached collection equals
\* the collection the most recent ingestion call returned, an empty one included.
C3_CacheIsLastResult == cache = history

\* the entries of a Takeout array that lack titleUrl
LackUrl(input) == {k \in 1..Len(input) : input[k].kind = "obj" /\ input[k].titleUrl = Absent}

\* C4 -- Takeout skip accounting: retained count + skipped count = raw entry count,
\* and no entry that lacks titleUrl is retained (so n entries of which m lack titleUrl
\* yield at most n - m records and a skipped count of m plus the other drops).
C4_SkipAccounting ==
    Ingested("load_watch_history") =>
        /\ Len(last.ret) + last.skipped = Len(last.input)
        /\ Len(last.ret) <= Len(last.input) - Cardinality(LackUrl(last.input))
        /\ last.skipped >= Cardinality(LackUrl(last.input))

\* C4 happens: a load of two entries, one of them without titleUrl, kept one record
\* and counted one skipped.
C4_Witness ==
    /\ Ingested("load_watch_history")
    /\ last.input = <<Tk.NoUrl, Tk.Good>>
    /\ Len(last.ret) = 1 /\ last.skipped = 1

\* C5 -- Takeout ordering: the collection load_watch_history returns is sorted by
\* timestamp descending, every record with a null timestamp comes after every record
\* with a timestamp, and the collection is a permutation of the surviving records.
C5_TakeoutOrdering ==
    Ingested("load_watch_history") =>
        /\ \A i, j \in 1..Len(last.ret) :
              (i < j /\ last.ret[i].timestamp # NoneTs /\ last.ret[j].timestamp # NoneTs)
                  => ~DtLess(last.ret[i].timestamp, last.ret[j].timestamp)
        /\ \A i, j \in 1..Len(last.ret) :
              (last.ret[i].timestamp = NoneTs /\ last.ret[j].timestamp # NoneTs) => j < i
        /\ \A k \in 1..Len(last.input) :
              Count(last.ret, EntryOutcome(last.input[k]).item) =
                  Count(TakeoutLoop(last.input, 1, <<>>, 0).items, EntryOutcome(last.input[k]).item)
        /\ Len(last.ret) = Len(TakeoutLoop(last.input, 1, <<>>, 0).items)

\* the text of a field when it is a string; a field that is not a string holds no text
Matches(v, query) == v.t = "str" /\ Contains(Lower(v.s), Lower(query))
\* the record matches the query in its title or channel, an API record also in its description
RecordMatches(item, query) ==
    \/ Matches(item.title, query)
    \/ Matches(item.channel_title, query)
    \/ item.cls = "api" /\ Matches(item.description, query)

\* C6 -- Search returns exactly the matching subsequence: for a non-empty collection
\* the result is, in order, the records whose lower-cased title or channel (or, for
\* the API store, description) contains the lower-cased query.
C6_SearchIsMatchingSubsequence ==
    (SearchRan /\ last.searched # <<>>) =>
        /\ last.raised = "none"
        /\ last.ret = SelectSeq(last.searched, LAMBDA item : RecordMatches(item, last.query))

\* C7 as stated -- Empty query is a no-op of search: whoever calls it, a query that is
\* empty after trimming never has the whole of a non-empty collection returned.
C7_EmptyQueryNoOp ==
    (SearchRan /\ Blank(last.query) /\ last.searched # <<>>) => last.ret # last.searched

\* C7 amended -- In the interactive search loop the typed line is trimmed before it is
\* used, and a line that is empty after trimming calls no search and returns nothing.
C7_PromptEmptyLineNoOp ==
    last.op = "prompt" =>
        /\ Blank(last.line) => (~last.called /\ last.ret = <<>>)
        /\ last.called =>
              /\ last.query # ""
              /\ Char(last.query, 1) # " " /\ Char(last.query, Len(last.query)) # " "
              /\ \E i \in 1..Len(last.line) :
                    /\ OccursAt(last.line, last.query, i)
                    /\ \A k \in 1..Len(last.line) :
                          (k < i \/ k >= i + Len(last.query)) => Char(last.line, k) = " "

\* C7 happens: a line of blanks was typed at the prompt over a non-empty history and
\* no search was run.
C7_Witness ==
    last.op = "prompt" /\ last.line = "  " /\ ~last.called /\ last.ret = <<>> /\ history # <<>>

\* C8 -- Search never fails: whatever the query and the collection, search returns a
\* collection and raises nothing.
C8_SearchNeverRaises ==
    last.op \in {"search_history", "prompt"} => last.raised = "none"

\* C9 -- Title is never empty: every stored record has a title that is a non-empty text.
C9_TitleNeverEmpty ==
    \A c \in {cache, history} : \A i \in 1..Len(c) : c[i].title.t = "str" /\ c[i].title.s # ""

\* C10 -- Video-id extractor result shape: _extract_video_id returns none or exactly 11
\* characters out of letters, digits, '-' and '_'.
C10_ExtractShape ==
    last.op = "extract" =>
        \/ last.value = JNull
        \/ /\ last.value.t = "str"
           /\ Len(last.value.s) = 11
           /\ \A i \in 1..Len(last.value.s) : Char(last.value.s, i) \in IdCharSet

\* C11 -- Export mapping: for every collection, export produces one object per record
\* in the same order whose video_id equals the record's video id exactly and whose
\* description is the stored description when that has at most 200 characters and
\* otherwise its first 200 characters followed by '...'; the stored description is
\* not shortened.
C11_ExportMapping ==
    (last.op = "export_to_json" /\ last.source = "ok") =>
        /\ last.value.t = "file"
        /\ Len(last.value.data) = Len(last.searched)
        /\ \A i \in 1..Len(last.searched) :
              /\ last.value.data[i].video_id = last.searched[i].video_id
              /\ last.value.data[i].description =
                    IF Len(last.searched[i].description.s) <= 200 THEN last.searched[i].description
                    ELSE JStr(SubSeq(last.searched[i].description.s, 1, 200) \o "...")
        /\ history = last.searched

\* C12 -- Search, summarize and export are read-only: no search, summary or export
\* step changes the collection it was given, the records in it, or the store's cached
\* collection, also when the export fails with an I/O error, which is reported and
\* not raised to the caller.
C12_ReadOnly ==
    [][last'.op \in {"search_history", "prompt", "print_summary", "get_top_channels", "export_to_json"} =>
          /\ cache' = cache
          /\ history' = history
          /\ last'.searched \in {cache', history', <<>>}
          /\ last'.op = "export_to_json" => last'.raised = "none"]_vars

\* C12 happens: an export of a non-empty history that is also the cached collection
\* failed with an I/O error, which was reported, and both are as they were.
C12_Witness ==
    /\ last.op = "export_to_json" /\ last.source = "io_error"
    /\ last.value.error = "OSError" /\ last.raised = "none"
    /\ history # <<>> /\ cache = history /\ last.searched = history

\* C13 -- Takeout file failures are raised, per-entry failures are not: a path that
\* does not exist raises a file-not-found error and content that is not valid JSON a
\* malformed-input error, no collection being returned in either case, whereas an
\* entry that fails during per-item parsing only adds to the skipped count of a call
\* that still returns a collection.
C13_FileFailuresRaised ==
    last.op = "load_watch_history" =>
        /\ last.source = "missing" => (last.raised = "FileNotFoundError" /\ last.ret = <<>>)
        /\ last.source = "badjson" => (last.raised = "ValueError" /\ last.ret = <<>>)
        /\ last.source = "array" =>
              /\ last.raised = "none"
              /\ last.skipped >= Cardinality({k \in 1..Len(last.input) : last.input[k] \in {Tk.NotObject, Tk.NumTitle}})
              /\ Len(last.ret) + last.skipped = Len(last.input)
              /\ cache = last.ret /\ history = last.ret

\* C13 happens: after a load that returned records, a load of a file that is not JSON
\* raised the malformed-input error and the earlier collection is still there.
C13_Witness ==
    /\ last.op = "load_watch_history" /\ last.source = "badjson"
    /\ last.raised = "ValueError" /\ last.ret = <<>>
    /\ history # <<>> /\ cache = history

\* a summary has just listed the top channels of the collection it was given
TopListed == last.op \in {"print_summary", "get_top_channels"}
\* the sum of a sequence of numbers
RECURSIVE Sum(_)
Sum(ns) == IF ns = <<>> THEN 0 ELSE Head(ns) + Sum(Tail(ns))
\* the position of the first record of collection c on channel x
FirstSeen(c, x) == MinOf({k \in 1..Len(c) : c[k].channel_title = x})
\* at most `limit` pairs, in descending count order with ties in first-encountered
\* order, each count the number of records on that channel, the counts summing to at
\* most the size of the collection
TopChannelsRight(top, limit, c) ==
    /\ Len(top) <= limit
    /\ \A i, j \in 1..Len(top) :
          i < j => \/ top[i][2] > top[j][2]
                   \/ top[i][2] = top[j][2] /\ FirstSeen(c, top[i][1]) < FirstSeen(c, top[j][1])
    /\ \A i \in 1..Len(top) : top[i][2] = Cardinality({k \in 1..Len(c) : c[k].channel_title = top[i][1]})
    /\ Sum([i \in 1..Len(top) |-> top[i][2]]) <= Len(c)

\* C14 as stated -- Top-channel summary: get_top_channels and the API summary's top
\* list return at most N (channel, count) pairs in descending count order with ties in
\* first-encountered order, each count is the number of records with that channel,
\* and the counts sum to at most the collection size, so the displayed percentages
\* (tenths of a percent in shown) sum to at most 100%.
C14_TopChannels ==
    TopListed =>
        /\ TopChannelsRight(last.value.top, last.value.limit, last.searched)
        /\ Sum(last.value.shown) <= 1000

\* C14 amended -- the same list, counts and sum of counts; the percentages sum to at
\* most 100% before they are rounded: each displayed percentage is count / size * 100
\* rounded to one decimal, so their sum stays within 0.05 per displayed channel of at
\* most 100%.
C14_TopChannelsRounded ==
    TopListed =>
        /\ TopChannelsRight(last.value.top, last.value.limit, last.searched)
        /\ 100 * Sum([i \in 1..Len(last.value.top) |-> last.value.top[i][2]]) <= 100 * Len(last.searched)
        /\ \A i \in 1..Len(last.value.shown) :
              /\ 2 * Len(last.searched) * last.value.shown[i] > 2000 * last.value.top[i][2] - Len(last.searched)
              /\ 2 * Len(last.searched) * last.value.shown[i] <= 2000 * last.value.top[i][2] + Len(last.searched)
        /\ 2 * Sum(last.value.shown) <= 2000 + Len(last.value.shown)

\* C14 happens: six records on six channels were summarised by the Takeout store and
\* each channel was shown with 16.7%.
C14_Witness ==
    /\ last.op = "print_summary" /\ mode = "takeout"
    /\ Len(last.searched) = 6 /\ Len(last.value.top) = 6
    /\ last.value.shown = <<167, 167, 167, 167, 167, 167>>

\* the channel the subtitles of an entry name: the first name that is a non-empty
\* text, an object giving its 'name' and a string itself
NamedChannel(subs) ==
    IF \E i \in 1..Len(subs) : subs[i].name.t = "str" /\ subs[i].name.s # ""
    THEN subs[MinOf({i \in 1..Len(subs) : subs[i].name.t = "str" /\ subs[i].name.s # ""})].name
    ELSE JStr("Unknown Channel")

\* C15 -- Takeout channel extraction: the channel of a record is the first non-empty
\* name found scanning its entry's subtitles in order, 'Unknown Channel' when no
\* element yields one, and so never the empty string.
C15_ChannelExtraction ==
    Ingested("load_watch_history") =>
        /\ \A j \in 1..Len(last.ret) : last.ret[j].channel_title # JStr("")
        /\ \A k \in 1..Len(last.input) :
              EntryOutcome(last.input[k]).outcome = "keep" =>
                  \E j \in 1..Len(last.ret) :
                      /\ last.ret[j] = EntryOutcome(last.input[k]).item
                      /\ last.ret[j].channel_title =
                            NamedChannel(IF last.input[k].subtitles = "list" THEN last.input[k].subs ELSE <<>>)

\* an activity item of type 'recommendation' with a video id under 'upload' or 'playlistItem'
RecommendedWithId(data) == /\ data.snippet = "obj" /\ data.type = JStr("recommendation")
                           /\ data.cd \in {"upload", "playlistItem"}
\* the positions of the recommendation records of collection c
RecommendationsIn(c) == {j \in 1..Len(c) : c[j].activity_type = JStr("recommendation")}

\* C16 as stated -- Recommendation activities are always dropped: whatever the
\* contentDetails of an item of type 'recommendation' contain, its video id is none
\* and it is absent from the result of get_watch_history.
C16_RecommendationDropped ==
    \A c \in {cache, history, last.ret} : RecommendationsIn(c) = {}

\* C16 amended -- A recommendation activity whose contentDetails have neither an
\* 'upload' nor a 'playlistItem' member gets no video id and is absent from the
\* result; the only recommendation records in a result come from items that carry
\* their video id under one of those two members.
C16_RecommendationDroppedWithoutId ==
    (last.op = "get_watch_history" /\ last.source = "api") =>
        /\ \A j \in RecommendationsIn(last.ret) :
              \E k \in 1..Len(last.input) :
                  RecommendedWithId(last.input[k]) /\ last.input[k].videoId = last.ret[j].video_id
        /\ Cardinality(RecommendationsIn(last.ret)) <=
              Cardinality({k \in 1..Len(last.input) : RecommendedWithId(last.input[k])})

\* C16 happens: the API answered a recommendation with only a 'recommendation' member
\* and one with a 'playlistItem' member, and only the second is in the result.
C16_Witness ==
    /\ last.op = "get_watch_history"
    /\ last.input = <<Api.Recommendation, Api.Untitled>>
    /\ Len(last.ret) = 1 /\ last.ret[1].video_id = Api.Untitled.videoId

====
